---- MODULE Spec2Model ----
(***************************************************************************)
(* Envelope encryption and shared-access key management of the Kitaab      *)
(* deed tracker: the deed_encryption_keys / permissions / relations design *)
(* of DEED_ENCRYPTION_STRATEGY.md, and the a.js life-cycle demo.           *)
(***************************************************************************)
EXTENDS Integers, Sequences, FiniteSets, TLC

\* ------------------------------------------------------------------ bounds
MaxPw == 2          \* distinct credentials a user may hold over time
MaxSalt == 2        \* values os.urandom may return for a key_derivation_salt
MaxNonce == 2       \* values os.urandom may return for an item nonce
MaxRandom == 4      \* values crypto.randomBytes may return in a.js

Users == {1, 2}
DeedIds == {1}
Items == {1, 2}
Passwords == 1..MaxPw
Salts == 1..MaxSalt
Nonces == 1..MaxNonce
RandomBytes == 1..MaxRandom

\* deeds.user_id: the owner of a deed; deed_items.deed_id: the deed of an item
DeedOwner(d) == 1
ItemDeed(i) == 1
ItemsOf(d) == {i \in Items : ItemDeed(i) = d}
PlainName(i) == IF i = 1 THEN "Private Prayer" ELSE "Personal Charity"

\* relations are unidirectional rows (requester, requestee), unique per ordered pair
RelIds == {<<a, b>> : a \in Users, b \in Users} \ {<<u, u>> : u \in Users}
NULL == <<0, 0>>

\* ------------------------------------------------------------ primitives
Fail == [ok |-> FALSE]
Ok(v) == [ok |-> TRUE, v |-> v]

\* PBKDF2-HMAC-SHA256, 100000 iterations: a deterministic function of both inputs
pbkdf2_hmac(password, salt) == <<"pbkdf2", password, salt>>

hkdf(master_key, info) == <<"hkdf", master_key, info>>

\* AES-256-GCM: the ciphertext and the tag are bound to key, nonce and data
gcm_cipher(key, nonce, data) == [k |-> key, n |-> nonce, p |-> data]

gcm_tag(key, nonce, c) == [k |-> key, n |-> nonce, c |-> c]

AESGCM_encrypt(key, nonce, data) ==
    [c |-> gcm_cipher(key, nonce, data),
     t |-> gcm_tag(key, nonce, gcm_cipher(key, nonce, data))]

AESGCM_decrypt(key, nonce, ct) ==
    IF ct.t = gcm_tag(key, nonce, ct.c) /\ ct.c.k = key /\ ct.c.n = nonce
    THEN Ok(ct.c.p)
    ELSE Fail

get_user_salt(user_id) == user_id

derive_user_master_key(user_id, password, salt) == pbkdf2_hmac(password, salt)

derive_deed_key(user_master_key, deed_id) == hkdf(user_master_key, <<"deed_", deed_id>>)

encrypt_deed_item_name(name, deed_key, nonce) ==
    [nonce |-> nonce, ciphertext |-> AESGCM_encrypt(deed_key, nonce, name)]

decrypt_deed_item_name(encrypted_data, deed_key) ==
    AESGCM_decrypt(deed_key, encrypted_data.nonce, encrypted_data.ciphertext)

\* the deed key is sealed under the master key and the row's key_derivation_salt
encrypt_with_master_key(deed_key, master_key, salt) ==
    AESGCM_encrypt(master_key, salt, deed_key)

decrypt_with_master_key(encrypted_deed_key, master_key, salt) ==
    AESGCM_decrypt(master_key, salt, encrypted_deed_key)

\* ----------------------------------------------------------------- state
VARIABLES
    user_password,          \* the credential each user currently holds
    relations,              \* relations table: status per (requester, requestee)
    deeds,                  \* deeds table: ids of the encrypted deeds created
    deed_items,             \* deed_items rows: deed_item_id, deed_id, name_encrypted
    deed_encryption_keys,   \* rows: deed_id, user_id, relation_id, encrypted_deed_key, key_derivation_salt
    permissions,            \* rows: relation_id, deed_item_id, permission_type, is_active
    grant_op,               \* the grant in progress, if any
    grants_done,            \* per (deed, friend): grants completed since the last revoke
    last_call,              \* what the last read or grant call did, in order
    jsPc,                   \* a.js: the statement the script has reached
    userKey,                \* a.js: const { key: userKey, salt }
    userSalt,
    encryptedDeed,          \* a.js: encrypt(privateDeed, userKey)
    db,                     \* a.js: const db = { deeds: [] }
    sharedKey,              \* a.js: the key the friend reads from db
    friendDecrypted,
    userKeyAgain,
    userDecrypted,
    encrypted_deed_access_log,  \* rows of the encrypted_deed_access_log table, in order
    sealed,                 \* an encryption result under test, with the key and data used
    opened,                 \* what decrypting it returned
    derived,                \* the last deriveKey call on its own: arguments and outcome
    encrypted_keys,         \* Option A: rows data_type, reference_id, user_id, encrypted_dek, iv, data_iv
    deed_item_id_seq,       \* Option A: the BIGSERIAL sequence behind deed_items.deed_item_id
    client_op               \* Option A: what a sharing client holds between encrypting and storing

kmVars == <<user_password, relations, deeds, deed_items, deed_encryption_keys,
            permissions, grant_op, grants_done, last_call, encrypted_deed_access_log>>

cipherVars == <<sealed, opened, derived>>

optionAVars == <<encrypted_keys, deed_item_id_seq, client_op>>

jsVars == <<jsPc, userKey, userSalt, encryptedDeed, db, sharedKey, friendDecrypted,
            userKeyAgain, userDecrypted>>

vars == <<kmVars, jsVars, cipherVars, optionAVars>>

Idle == [pc |-> "idle"]
NoCall == [op |-> "none", user_id |-> 0, deed_id |-> 0, outcome |-> "none",
           trace |-> <<>>, names |-> {}]

CurrentKey(u) == derive_user_master_key(u, user_password[u], get_user_salt(u))

KmInit ==
    /\ user_password = [u \in Users |-> 1]
    /\ relations = [r \in RelIds |-> "none"]
    /\ deeds = {}
    /\ deed_items = {}
    /\ deed_encryption_keys = {}
    /\ permissions = {}
    /\ grant_op = Idle
    /\ grants_done = [d \in DeedIds |-> [u \in Users |-> 0]]
    /\ last_call = NoCall
    /\ encrypted_deed_access_log = <<>>

\* ----------------------------------------------------- relations (external)
SendRequest(r) ==
    /\ grant_op.pc = "idle"
    /\ relations[r] = "none"
    /\ relations' = [relations EXCEPT ![r] = "pending"]
    /\ last_call' = NoCall
    /\ UNCHANGED <<user_password, deeds, deed_items, deed_encryption_keys,
                   permissions, grant_op, grants_done, encrypted_deed_access_log,
                   jsVars, cipherVars, optionAVars>>

RespondRequest(r, status) ==
    /\ grant_op.pc = "idle"
    /\ relations[r] = "pending"
    /\ status \in {"accepted", "rejected"}
    /\ relations' = [relations EXCEPT ![r] = status]
    /\ last_call' = NoCall
    /\ UNCHANGED <<user_password, deeds, deed_items, deed_encryption_keys,
                   permissions, grant_op, grants_done, encrypted_deed_access_log,
                   jsVars, cipherVars, optionAVars>>

BlockRelation(r) ==
    /\ grant_op.pc = "idle"
    /\ relations[r] \in {"pending", "accepted"}
    /\ relations' = [relations EXCEPT ![r] = "blocked"]
    /\ last_call' = NoCall
    /\ UNCHANGED <<user_password, deeds, deed_items, deed_encryption_keys,
                   permissions, grant_op, grants_done, encrypted_deed_access_log,
                   jsVars, cipherVars, optionAVars>>

\* ------------------------------------------------- creating an encrypted deed
CreateDeed(d, nonces, salt) ==
    LET u == DeedOwner(d)
        master_key == derive_user_master_key(u, user_password[u], get_user_salt(u))
        deed_key == derive_deed_key(master_key, d)
    IN  /\ grant_op.pc = "idle"
        /\ d \notin deeds
        /\ deeds' = deeds \cup {d}
        /\ deed_items' = deed_items \cup
              {[deed_item_id |-> i, deed_id |-> d,
                name_encrypted |-> encrypt_deed_item_name(PlainName(i), deed_key, nonces[i])]
               : i \in ItemsOf(d)}
        /\ deed_encryption_keys' = deed_encryption_keys \cup
              {[deed_id |-> d, user_id |-> u, relation_id |-> NULL,
                encrypted_deed_key |-> encrypt_with_master_key(deed_key, master_key, salt),
                key_derivation_salt |-> salt]}
        /\ last_call' = NoCall
        /\ UNCHANGED <<user_password, relations, permissions, grant_op, grants_done, encrypted_deed_access_log,
                   jsVars, cipherVars, optionAVars>>

\* ------------------------------------------------------- permission granting
\* step 1 without "AND status = 'accepted'": any relation row between the two users
accepted_relations_any_status(owner_user_id, friend_user_id) ==
    {r \in {<<owner_user_id, friend_user_id>>, <<friend_user_id, owner_user_id>>} :
        r \in RelIds /\ relations[r] # "none"}

\* step 1 of the grant: an accepted relation between the two users, in either direction
accepted_relations(owner_user_id, friend_user_id) ==
    {r \in {<<owner_user_id, friend_user_id>>, <<friend_user_id, owner_user_id>>} :
        r \in RelIds /\ relations[r] = "accepted"}

owner_key_rows(deed_id, user_id) ==
    {k \in deed_encryption_keys :
        k.deed_id = deed_id /\ k.user_id = user_id /\ k.relation_id = NULL}

shared_key_rows(deed_id, user_id, relation_id) ==
    {k \in deed_encryption_keys :
        k.deed_id = deed_id /\ k.user_id = user_id /\ k.relation_id = relation_id}

\* INSERT INTO permissions ... ON CONFLICT (relation_id, deed_item_id, permission_type)
\* DO UPDATE SET is_active = TRUE
upsert_permissions(relation_id, deed_item_ids) ==
    {p \in permissions :
        ~(p.relation_id = relation_id /\ p.deed_item_id \in deed_item_ids
          /\ p.permission_type = "read")}
    \cup {[relation_id |-> relation_id, deed_item_id |-> i,
           permission_type |-> "read", is_active |-> TRUE] : i \in deed_item_ids}

\* INSERT INTO deed_encryption_keys ... ON CONFLICT (deed_id, user_id, relation_id)
\* DO UPDATE SET encrypted_deed_key = EXCLUDED.encrypted_deed_key
upsert_shared_key(deed_id, user_id, relation_id, encrypted_shared_key, shared_key_salt) ==
    IF shared_key_rows(deed_id, user_id, relation_id) = {}
    THEN deed_encryption_keys \cup
            {[deed_id |-> deed_id, user_id |-> user_id, relation_id |-> relation_id,
              encrypted_deed_key |-> encrypted_shared_key,
              key_derivation_salt |-> shared_key_salt]}
    ELSE {IF k \in shared_key_rows(deed_id, user_id, relation_id)
          THEN [k EXCEPT !.encrypted_deed_key = encrypted_shared_key]
          ELSE k : k \in deed_encryption_keys}

\* step 1 fails: raise ValueError("No accepted relation between users")
GrantRefused(owner_user_id, friend_user_id, deed_id) ==
    /\ grant_op.pc = "idle"
    /\ deed_id \in deeds
    /\ owner_user_id # friend_user_id
    /\ accepted_relations(owner_user_id, friend_user_id) = {}
    /\ last_call' = [op |-> "grant", user_id |-> owner_user_id, deed_id |-> deed_id,
                     outcome |-> "ValueError", trace |-> <<"relation:none">>,
                     names |-> {}]
    /\ UNCHANGED <<user_password, relations, deeds, deed_items, deed_encryption_keys,
                   permissions, grant_op, grants_done, encrypted_deed_access_log,
                   jsVars, cipherVars, optionAVars>>

\* steps 1 to 5: relation check, owner's key recovered, permissions written
GrantPermissions(owner_user_id, friend_user_id, deed_id, deed_item_ids, relation) ==
    LET owner_master_key == derive_user_master_key(owner_user_id,
                                user_password[owner_user_id], get_user_salt(owner_user_id))
    IN  /\ grant_op.pc = "idle"
        /\ deed_id \in deeds
        /\ owner_user_id # friend_user_id
        /\ relation \in accepted_relations(owner_user_id, friend_user_id)
        /\ deed_item_ids # {}
        /\ deed_item_ids \subseteq ItemsOf(deed_id)
        /\ \E rec \in owner_key_rows(deed_id, owner_user_id) :
              LET actual == decrypt_with_master_key(rec.encrypted_deed_key,
                                owner_master_key, rec.key_derivation_salt)
              IN  /\ actual.ok
                  /\ grant_op' = [pc |-> "store_key", deed_id |-> deed_id,
                                  friend_user_id |-> friend_user_id,
                                  relation_id |-> relation,
                                  actual_deed_key |-> actual.v]
        /\ permissions' = upsert_permissions(relation, deed_item_ids)
        /\ last_call' = [op |-> "grant", user_id |-> owner_user_id, deed_id |-> deed_id,
                         outcome |-> "ok",
                         trace |-> <<"relation:accepted", "derive", "owner_row:found",
                                     "unwrap:ok">>,
                         names |-> {}]
        /\ UNCHANGED <<user_password, relations, deeds, deed_items, deed_encryption_keys,
                       grants_done, encrypted_deed_access_log,
                   jsVars, cipherVars, optionAVars>>

\* step 6: the deed key encrypted with the friend's master key is stored
GrantStoreKey(shared_key_salt) ==
    LET f == grant_op.friend_user_id
        d == grant_op.deed_id
        friend_master_key == derive_user_master_key(f, user_password[f], get_user_salt(f))
        encrypted_shared_key == encrypt_with_master_key(grant_op.actual_deed_key,
                                    friend_master_key, shared_key_salt)
    IN  /\ grant_op.pc = "store_key"
        /\ deed_encryption_keys' = upsert_shared_key(d, f,
                grant_op.relation_id, encrypted_shared_key, shared_key_salt)
        /\ grant_op' = Idle
        /\ grants_done' = [grants_done EXCEPT ![d][f] = IF @ < 2 THEN @ + 1 ELSE @]
        /\ last_call' = NoCall
        /\ UNCHANGED <<user_password, relations, deeds, deed_items, permissions, encrypted_deed_access_log,
                   jsVars, cipherVars, optionAVars>>

\* step 6 when the friend's master key cannot be obtained: the call raises
GrantFail ==
    /\ grant_op.pc = "store_key"
    /\ grant_op' = Idle
    /\ last_call' = NoCall
    /\ UNCHANGED <<user_password, relations, deeds, deed_items, deed_encryption_keys,
                   permissions, grants_done, encrypted_deed_access_log,
                   jsVars, cipherVars, optionAVars>>

\* "User A grants permission -> permissions table (permission_type: read/write)":
\* a write permission on an item, under an accepted relation
GrantWritePermission(relation_id, deed_item_id) ==
    /\ grant_op.pc = "idle"
    /\ ItemDeed(deed_item_id) \in deeds
    /\ relations[relation_id] = "accepted"
    /\ DeedOwner(ItemDeed(deed_item_id)) \in {relation_id[1], relation_id[2]}
    /\ permissions' =
          {p \in permissions :
              ~(p.relation_id = relation_id /\ p.deed_item_id = deed_item_id
                /\ p.permission_type = "write")}
          \cup {[relation_id |-> relation_id, deed_item_id |-> deed_item_id,
                 permission_type |-> "write", is_active |-> TRUE]}
    /\ last_call' = NoCall
    /\ UNCHANGED <<user_password, relations, deeds, deed_items, deed_encryption_keys,
                   grant_op, grants_done, encrypted_deed_access_log, jsVars, cipherVars, optionAVars>>

\* ------------------------------------------------------ revoking friend access
\* a friend's read that is between its queries is marked when a revoke of that
\* friend's access to that deed commits
revoked_during(op, deed_id, friend_user_id) ==
    IF op.pc \in {"fetch_key", "decrypt"} /\ op.deed_id = deed_id
       /\ op.friend_user_id = friend_user_id
    THEN [op EXCEPT !.revoked = TRUE]
    ELSE op

\* a revoke whose DELETE names the deed only
Revoke_every_row(owner_user_id, friend_user_id, deed_id, deed_item_ids, delete_key) ==
    LET rels == {<<owner_user_id, friend_user_id>>, <<friend_user_id, owner_user_id>>}
    IN  /\ grant_op.pc \in {"idle", "fetch_key", "decrypt"}
        /\ deed_id \in deeds
        /\ owner_user_id = DeedOwner(deed_id)
        /\ owner_user_id # friend_user_id
        /\ deed_item_ids # {}
        /\ deed_item_ids \subseteq ItemsOf(deed_id)
        /\ \E p \in permissions :
              p.relation_id \in rels /\ p.deed_item_id \in deed_item_ids /\ p.is_active
        /\ permissions' =
              {IF p.relation_id \in rels /\ p.deed_item_id \in deed_item_ids
               THEN [p EXCEPT !.is_active = FALSE] ELSE p : p \in permissions}
        /\ deed_encryption_keys' =
              IF delete_key
              THEN {k \in deed_encryption_keys : k.deed_id # deed_id}
              ELSE deed_encryption_keys
        /\ grants_done' = [grants_done EXCEPT ![deed_id][friend_user_id] = 0]
        /\ grant_op' = revoked_during(grant_op, deed_id, friend_user_id)
        /\ last_call' = NoCall
        /\ UNCHANGED <<user_password, relations, deeds, deed_items,
                       encrypted_deed_access_log, jsVars, cipherVars, optionAVars>>

Revoke(owner_user_id, friend_user_id, deed_id, deed_item_ids, delete_key) ==
    LET rels == {<<owner_user_id, friend_user_id>>, <<friend_user_id, owner_user_id>>}
    IN  /\ grant_op.pc \in {"idle", "fetch_key", "decrypt"}
        /\ deed_id \in deeds
        /\ owner_user_id = DeedOwner(deed_id)
        /\ owner_user_id # friend_user_id
        /\ deed_item_ids # {}
        /\ deed_item_ids \subseteq ItemsOf(deed_id)
        /\ \E p \in permissions :
              p.relation_id \in rels /\ p.deed_item_id \in deed_item_ids /\ p.is_active
        /\ permissions' =
              {IF p.relation_id \in rels /\ p.deed_item_id \in deed_item_ids
               THEN [p EXCEPT !.is_active = FALSE] ELSE p : p \in permissions}
        /\ deed_encryption_keys' =
              IF delete_key
              THEN {k \in deed_encryption_keys :
                      ~(k.deed_id = deed_id /\ k.user_id = friend_user_id
                        /\ k.relation_id \in rels)}
              ELSE deed_encryption_keys
        /\ grants_done' = [grants_done EXCEPT ![deed_id][friend_user_id] = 0]
        /\ grant_op' = revoked_during(grant_op, deed_id, friend_user_id)
        /\ last_call' = NoCall
        /\ UNCHANGED <<user_password, relations, deeds, deed_items,
                       encrypted_deed_access_log, jsVars, cipherVars, optionAVars>>

\* ------------------------------------------------------------ password change
\* the (deed_id, relation_id) of the rows a set of rows holds
RowKeys(rows) == {<<k.deed_id, k.relation_id>> : k \in rows}

\* a password change that leaves the stored rows as they are
rewrap_skipped(k, old_master_key, new_master_key, salt) == k

\* "Decrypt all deed keys using old master key, re-encrypt using new master key"
rewrap(k, old_master_key, new_master_key, salt) ==
    LET dk == decrypt_with_master_key(k.encrypted_deed_key, old_master_key,
                                      k.key_derivation_salt)
    IN  IF dk.ok
        THEN [k EXCEPT !.encrypted_deed_key =
                           encrypt_with_master_key(dk.v, new_master_key, salt),
                       !.key_derivation_salt = salt]
        ELSE k

ChangePassword(u, new_password, salts) ==
    LET old_master_key == derive_user_master_key(u, user_password[u], get_user_salt(u))
        new_master_key == derive_user_master_key(u, new_password, get_user_salt(u))
    IN  /\ grant_op.pc = "idle"
        /\ new_password # user_password[u]
        /\ user_password' = [user_password EXCEPT ![u] = new_password]
        /\ deed_encryption_keys' =
              {IF k.user_id = u
               THEN rewrap(k, old_master_key, new_master_key,
                           salts[<<k.deed_id, k.relation_id>>])
               ELSE k : k \in deed_encryption_keys}
        /\ last_call' = NoCall
        /\ UNCHANGED <<relations, deeds, deed_items, permissions, grant_op,
                       grants_done, encrypted_deed_access_log,
                   jsVars, cipherVars, optionAVars>>

\* ------------------------------------------------------- deed key rotation
\* the deed key a user's row yields under a master key
unwrap_row(k, master_key) ==
    decrypt_with_master_key(k.encrypted_deed_key, master_key, k.key_derivation_salt)

\* a rotation that seals every row of the deed under the rotating user's master key
rotate_deed_encryption_key_own_key(deed_id, user_id, new_password, nonces, salts) ==
    LET master_key == derive_user_master_key(user_id, new_password, get_user_salt(user_id))
        old_rec == CHOOSE k \in owner_key_rows(deed_id, user_id) : TRUE
        old_key == unwrap_row(old_rec, master_key)
        new_key == derive_deed_key(master_key, deed_id)
        holder_key(k) == master_key
    IN  [items |->
            {IF it.deed_id = deed_id
             THEN [it EXCEPT !.name_encrypted =
                      encrypt_deed_item_name(
                          decrypt_deed_item_name(it.name_encrypted, old_key.v).v,
                          new_key, nonces[it.deed_item_id])]
             ELSE it : it \in deed_items},
         keys |->
            {IF k.deed_id = deed_id
             THEN [k EXCEPT !.encrypted_deed_key =
                               encrypt_with_master_key(new_key, holder_key(k),
                                   salts[<<k.deed_id, k.relation_id>>]),
                            !.key_derivation_salt = salts[<<k.deed_id, k.relation_id>>]]
             ELSE k : k \in deed_encryption_keys}]

\* steps 1 to 5 of rotate_deed_encryption_key, for the password the user now holds
rotate_deed_encryption_key(deed_id, user_id, new_password, nonces, salts) ==
    LET master_key == derive_user_master_key(user_id, new_password, get_user_salt(user_id))
        old_rec == CHOOSE k \in owner_key_rows(deed_id, user_id) : TRUE
        old_key == unwrap_row(old_rec, master_key)
        new_key == derive_deed_key(master_key, deed_id)
        holder_key(k) == derive_user_master_key(k.user_id, user_password[k.user_id],
                                                get_user_salt(k.user_id))
    IN  [items |->
            {IF it.deed_id = deed_id
             THEN [it EXCEPT !.name_encrypted =
                      encrypt_deed_item_name(
                          decrypt_deed_item_name(it.name_encrypted, old_key.v).v,
                          new_key, nonces[it.deed_item_id])]
             ELSE it : it \in deed_items},
         keys |->
            {IF k.deed_id = deed_id
             THEN [k EXCEPT !.encrypted_deed_key =
                               encrypt_with_master_key(new_key, holder_key(k),
                                   salts[<<k.deed_id, k.relation_id>>]),
                            !.key_derivation_salt = salts[<<k.deed_id, k.relation_id>>]]
             ELSE k : k \in deed_encryption_keys}]

RotateDeedKey(deed_id, user_id, nonces, salts) ==
    LET master_key == derive_user_master_key(user_id, user_password[user_id],
                                             get_user_salt(user_id))
    IN  /\ grant_op.pc = "idle"
        /\ deed_id \in deeds
        /\ \E k \in owner_key_rows(deed_id, user_id) :
              /\ unwrap_row(k, master_key).ok
              /\ \A it \in deed_items :
                    it.deed_id = deed_id =>
                       decrypt_deed_item_name(it.name_encrypted,
                                              unwrap_row(k, master_key).v).ok
        /\ LET r == rotate_deed_encryption_key(deed_id, user_id,
                        user_password[user_id], nonces, salts)
           IN  /\ deed_items' = r.items
               /\ deed_encryption_keys' = r.keys
        /\ last_call' = NoCall
        /\ UNCHANGED <<user_password, relations, deeds, permissions, grant_op,
                       grants_done, encrypted_deed_access_log,
                   jsVars, cipherVars, optionAVars>>

\* ------------------------------------------------------------------- reading
Result(outcome, key, trace) == [outcome |-> outcome, key |-> key, trace |-> trace]

get_user_deed_key(user_id, deed_id, password) ==
    LET master_key == derive_user_master_key(user_id, password, get_user_salt(user_id))
        rows == owner_key_rows(deed_id, user_id)
    IN  IF rows = {}
        THEN Result("PermissionError", Fail, <<"derive", "owner_row:none">>)
        ELSE LET rec == CHOOSE k \in rows : TRUE
                 deed_key == decrypt_with_master_key(rec.encrypted_deed_key, master_key,
                                                     rec.key_derivation_salt)
             IN  IF deed_key.ok
                 THEN Result("ok", deed_key, <<"derive", "owner_row:found", "unwrap:ok">>)
                 ELSE Result("InvalidTag", Fail,
                             <<"derive", "owner_row:found", "unwrap:fail">>)

\* SELECT * FROM permissions WHERE relation_id = %s AND deed_item_id IN (items of the
\* deed) AND permission_type = 'read' AND is_active = TRUE
active_read_permissions(relation_id, deed_id) ==
    {p \in permissions :
        /\ p.relation_id = relation_id
        /\ p.deed_item_id \in ItemsOf(deed_id)
        /\ p.permission_type = "read"
        /\ p.is_active}

\* the friend's key path with the permission query left out
get_friend_deed_key_ungated(friend_user_id, deed_id, relation_id, friend_password) ==
    LET friend_master_key == derive_user_master_key(friend_user_id, friend_password,
                                                    get_user_salt(friend_user_id))
        rows == shared_key_rows(deed_id, friend_user_id, relation_id)
    IN  IF rows = {}
        THEN Result("PermissionError", Fail, <<"derive", "shared_row:none">>)
        ELSE LET rec == CHOOSE k \in rows : TRUE
                 deed_key == decrypt_with_master_key(rec.encrypted_deed_key,
                                 friend_master_key, rec.key_derivation_salt)
             IN  IF deed_key.ok
                 THEN Result("ok", deed_key, <<"derive", "shared_row:found", "unwrap:ok">>)
                 ELSE Result("InvalidTag", Fail,
                             <<"derive", "shared_row:found", "unwrap:fail">>)

get_friend_deed_key(friend_user_id, deed_id, relation_id, friend_password) ==
    LET friend_master_key == derive_user_master_key(friend_user_id, friend_password,
                                                    get_user_salt(friend_user_id))
        rows == shared_key_rows(deed_id, friend_user_id, relation_id)
    IN  IF active_read_permissions(relation_id, deed_id) = {}
        THEN Result("PermissionError", Fail, <<"permission:none">>)
        ELSE IF rows = {}
        THEN Result("PermissionError", Fail,
                    <<"permission:active", "derive", "shared_row:none">>)
        ELSE LET rec == CHOOSE k \in rows : TRUE
                 deed_key == decrypt_with_master_key(rec.encrypted_deed_key,
                                 friend_master_key, rec.key_derivation_salt)
             IN  IF deed_key.ok
                 THEN Result("ok", deed_key,
                             <<"permission:active", "derive", "shared_row:found",
                               "unwrap:ok">>)
                 ELSE Result("InvalidTag", Fail,
                             <<"permission:active", "derive", "shared_row:found",
                               "unwrap:fail">>)

\* Permission Check Flow, step 1: the accepted relation rows between the two users
get_relation_between_users(deed_owner_id, user_id) ==
    {r \in {<<deed_owner_id, user_id>>, <<user_id, deed_owner_id>>} :
        r \in RelIds /\ relations[r] = "accepted"}

\* step 3: every item of the deed is decrypted with the deed key
decrypt_items(deed_id, deed_key) ==
    {<<it.deed_item_id, decrypt_deed_item_name(it.name_encrypted, deed_key)>> :
        it \in {x \in deed_items : x.deed_id = deed_id}}

\* relation: the row get_relation_between_users returned, NULL when there is none
get_deed_items_decrypted(deed_id, user_id, password, relation) ==
    LET own == get_user_deed_key(user_id, deed_id, password)
        fr == get_friend_deed_key(user_id, deed_id, relation, password)
        got == IF own.outcome # "PermissionError" THEN own
               ELSE IF relation = NULL
               THEN Result("PermissionError", Fail, own.trace \o <<"relation:none">>)
               ELSE Result(fr.outcome, fr.key, own.trace \o <<"relation:found">> \o fr.trace)
        items == decrypt_items(deed_id, got.key.v)
    IN  IF got.outcome # "ok"
        THEN [op |-> "read", user_id |-> user_id, deed_id |-> deed_id,
              outcome |-> got.outcome, trace |-> got.trace, names |-> {}]
        ELSE IF \E x \in items : ~x[2].ok
        THEN [op |-> "read", user_id |-> user_id, deed_id |-> deed_id,
              outcome |-> "InvalidTag", trace |-> got.trace \o <<"open:fail">>,
              names |-> {}]
        ELSE [op |-> "read", user_id |-> user_id, deed_id |-> deed_id,
              outcome |-> "ok", trace |-> got.trace \o <<"open:ok">>,
              names |-> {<<x[1], x[2].v>> : x \in items}]

Read(deed_id, user_id, password) ==
    /\ grant_op.pc = "idle"
    /\ deed_id \in deeds
    /\ \E relation \in IF get_relation_between_users(DeedOwner(deed_id), user_id) = {}
                       THEN {NULL}
                       ELSE get_relation_between_users(DeedOwner(deed_id), user_id) :
          last_call' = get_deed_items_decrypted(deed_id, user_id, password, relation)
    /\ UNCHANGED <<user_password, relations, deeds, deed_items, deed_encryption_keys,
                   permissions, grant_op, grants_done, encrypted_deed_access_log,
                   jsVars, cipherVars, optionAVars>>

\* whether the read path lets user_id through to the deed key of deed_id
has_permission(user_id, deed_id) ==
    \/ owner_key_rows(deed_id, user_id) # {}
    \/ \E r \in get_relation_between_users(DeedOwner(deed_id), user_id) :
          active_read_permissions(r, deed_id) # {}

\* ------------------------------------------- a lookup that does not answer
\* get_deed_items_decrypted for a user who holds no owner row, when the named
\* lookup ("relation" or "permission") times out.  The database layer either
\* raises its own error, which `except PermissionError` does not catch, or
\* hands back no row; which of the two is the driver's choice (raises).
get_deed_items_decrypted_open(deed_id, user_id, password, relation, lookup, raises) ==
    LET own == get_user_deed_key(user_id, deed_id, password)
        fr == IF lookup = "permission"
              THEN get_friend_deed_key_ungated(user_id, deed_id, relation, password)
              ELSE get_friend_deed_key(user_id, deed_id, relation, password)
        items == decrypt_items(deed_id, fr.key.v)
        result(outcome, names) ==
            [op |-> "read", user_id |-> user_id, deed_id |-> deed_id, outcome |-> outcome,
             trace |-> own.trace \o <<lookup \o ":timeout">> \o fr.trace, names |-> names]
    IN  IF fr.outcome # "ok" THEN result(fr.outcome, {})
        ELSE IF \E x \in items : ~x[2].ok THEN result("InvalidTag", {})
        ELSE result("ok", {<<x[1], x[2].v>> : x \in items})

get_deed_items_decrypted_timeout(deed_id, user_id, password, relation, lookup, raises) ==
    LET own == get_user_deed_key(user_id, deed_id, password)
        before == IF lookup = "relation" THEN own.trace
                  ELSE own.trace \o <<"relation:found">>
    IN  [op |-> "read", user_id |-> user_id, deed_id |-> deed_id,
         outcome |-> IF raises THEN "TimeoutError" ELSE "PermissionError",
         trace |-> before \o <<lookup \o ":timeout">>, names |-> {}]

ReadTimeout(deed_id, user_id, password, lookup, raises) ==
    /\ grant_op.pc = "idle"
    /\ deed_id \in deeds
    /\ get_user_deed_key(user_id, deed_id, password).outcome = "PermissionError"
    /\ \E relation \in IF get_relation_between_users(DeedOwner(deed_id), user_id) = {}
                       THEN {NULL}
                       ELSE get_relation_between_users(DeedOwner(deed_id), user_id) :
          /\ lookup = "permission" => relation # NULL
          /\ last_call' = get_deed_items_decrypted_timeout(deed_id, user_id, password,
                                                           relation, lookup, raises)
    /\ UNCHANGED <<user_password, relations, deeds, deed_items, deed_encryption_keys,
                   permissions, grant_op, grants_done, encrypted_deed_access_log,
                   jsVars, cipherVars, optionAVars>>

\* ------------------------------------- a friend's read, one query at a time
\* get_friend_deed_key step 1 has found an active permission
FriendReadCheck(deed_id, user_id, relation) ==
    /\ grant_op.pc = "idle"
    /\ deed_id \in deeds
    /\ get_user_deed_key(user_id, deed_id, user_password[user_id]).outcome = "PermissionError"
    /\ relation \in get_relation_between_users(DeedOwner(deed_id), user_id)
    /\ active_read_permissions(relation, deed_id) # {}
    /\ grant_op' = [pc |-> "fetch_key", deed_id |-> deed_id, friend_user_id |-> user_id,
                    relation_id |-> relation, revoked |-> FALSE, record |-> Fail]
    /\ last_call' = NoCall
    /\ UNCHANGED <<user_password, relations, deeds, deed_items, deed_encryption_keys,
                   permissions, grants_done, encrypted_deed_access_log, jsVars, cipherVars, optionAVars>>

\* step 3: SELECT encrypted_deed_key, key_derivation_salt ... .first()
FriendReadFetch ==
    LET rows == shared_key_rows(grant_op.deed_id, grant_op.friend_user_id,
                                grant_op.relation_id)
    IN  /\ grant_op.pc = "fetch_key"
        /\ \/ /\ rows = {}
              /\ grant_op' = [grant_op EXCEPT !.pc = "decrypt", !.record = Fail]
           \/ \E rec \in rows :
                 grant_op' = [grant_op EXCEPT !.pc = "decrypt", !.record = Ok(rec)]
        /\ UNCHANGED <<user_password, relations, deeds, deed_items, deed_encryption_keys,
                       permissions, grants_done, last_call, encrypted_deed_access_log,
                       jsVars, cipherVars, optionAVars>>

\* the deed key the read in progress obtains from the row it fetched
fetched_deed_key(op) ==
    IF op.record.ok
    THEN unwrap_row(op.record.v, CurrentKey(op.friend_user_id))
    ELSE Fail

\* step 4 and the decryption of the items, or PermissionError("Shared deed key not found")
FriendReadFinish ==
    LET deed_key == fetched_deed_key(grant_op)
        items == decrypt_items(grant_op.deed_id, deed_key.v)
        result(outcome, names) ==
            [op |-> "read", user_id |-> grant_op.friend_user_id,
             deed_id |-> grant_op.deed_id, outcome |-> outcome,
             trace |-> <<"derive", "owner_row:none", "relation:found", "permission:active",
                         "derive">>
                       \o (IF ~grant_op.record.ok THEN <<"shared_row:none">>
                           ELSE IF ~deed_key.ok THEN <<"shared_row:found", "unwrap:fail">>
                           ELSE <<"shared_row:found", "unwrap:ok",
                                  IF outcome = "ok" THEN "open:ok" ELSE "open:fail">>),
             names |-> names]
    IN  /\ grant_op.pc = "decrypt"
        /\ last_call' =
              IF ~grant_op.record.ok THEN result("PermissionError", {})
              ELSE IF ~deed_key.ok THEN result("InvalidTag", {})
              ELSE IF \E x \in items : ~x[2].ok THEN result("InvalidTag", {})
              ELSE result("ok", {<<x[1], x[2].v>> : x \in items})
        /\ grant_op' = Idle
        /\ UNCHANGED <<user_password, relations, deeds, deed_items, deed_encryption_keys,
                       permissions, grants_done, encrypted_deed_access_log, jsVars,
                       cipherVars, optionAVars>>

\* -------------------------------------------------------------------- a.js
privateDeed == "My secret good deed entry"
userId == "user123"
friendId == "friend456"
userPassword == "userPassword123!"

\* Buffer.toString('hex') and Buffer.from(hex, 'hex')
toString_hex(buf) == <<"hex", buf>>
Buffer_from_hex(str) == str[2]

\* a missing argument (salt = null)
null == [null |-> TRUE]

\* crypto.randomBytes(size): a buffer of size bytes, bytes being what was drawn
randomBytes(size, bytes) == [size |-> size, bytes |-> bytes]

\* crypto.pbkdf2Sync(password, salt, 100000, 32, 'sha256')
pbkdf2Sync(password, salt) == pbkdf2_hmac(password, salt)

\* deriveKey drawing a fresh salt even when one is passed in
deriveKey_fresh_salt(password, salt, random) ==
    [key |-> pbkdf2Sync(password, randomBytes(16, random)),
     salt |-> randomBytes(16, random)]

\* random is what crypto.randomBytes draws when no salt is passed
deriveKey(password, salt, random) ==
    [key |-> pbkdf2Sync(password, IF salt = null THEN randomBytes(16, random) ELSE salt),
     salt |-> IF salt = null THEN randomBytes(16, random) ELSE salt]

\* encrypt returning an iv other than the one the cipher was created with
encrypt_other_iv(data, key, random) ==
    LET iv == randomBytes(16, random)
    IN  [encryptedData |-> gcm_cipher(key, iv, data), iv |-> randomBytes(16, 0),
         tag |-> gcm_tag(key, iv, gcm_cipher(key, iv, data))]

\* random is what crypto.randomBytes draws for the iv
encrypt(data, key, random) ==
    LET iv == randomBytes(16, random)
    IN  [encryptedData |-> gcm_cipher(key, iv, data), iv |-> iv,
         tag |-> gcm_tag(key, iv, gcm_cipher(key, iv, data))]

\* decrypt without the authentication tag check
decrypt_unauthenticated(encryptedObj, key) ==
    IF encryptedObj.encryptedData.k = key
    THEN Ok(encryptedObj.encryptedData.p)
    ELSE Fail

decrypt(encryptedObj, key) ==
    IF /\ encryptedObj.tag = gcm_tag(key, encryptedObj.iv, encryptedObj.encryptedData)
       /\ encryptedObj.encryptedData.k = key
       /\ encryptedObj.encryptedData.n = encryptedObj.iv
    THEN Ok(encryptedObj.encryptedData.p)
    ELSE Fail

deedRecord ==
    [deed_id |-> "deed001",
     owner_id |-> userId,
     encrypted_data |-> toString_hex(encryptedDeed.encryptedData),
     iv |-> toString_hex(encryptedDeed.iv),
     auth_tag |-> toString_hex(encryptedDeed.tag),
     salt |-> toString_hex(userSalt),
     shared_with |-> <<[friend_id |-> friendId, shared_key |-> toString_hex(userKey)]>>]

\* the object both readers rebuild from the stored record
stored_object(rec) ==
    [encryptedData |-> Buffer_from_hex(rec.encrypted_data),
     iv |-> Buffer_from_hex(rec.iv),
     tag |-> Buffer_from_hex(rec.auth_tag)]

JsInit ==
    /\ jsPc = 48
    /\ userKey = pbkdf2Sync("", null)
    /\ userSalt = null
    /\ encryptedDeed = encrypt("", pbkdf2Sync("", null), 0)
    /\ db = [deeds |-> <<>>]
    /\ sharedKey = pbkdf2Sync("", null)
    /\ friendDecrypted = Fail
    /\ userKeyAgain = pbkdf2Sync("", null)
    /\ userDecrypted = Fail

JsDeriveKey(random) ==
    /\ jsPc = 48
    /\ userKey' = deriveKey(userPassword, null, random).key
    /\ userSalt' = deriveKey(userPassword, null, random).salt
    /\ jsPc' = 53
    /\ UNCHANGED <<encryptedDeed, db, sharedKey, friendDecrypted, userKeyAgain,
                   userDecrypted, kmVars, cipherVars, optionAVars>>

JsEncrypt(random) ==
    /\ jsPc = 53
    /\ encryptedDeed' = encrypt(privateDeed, userKey, random)
    /\ jsPc' = 59
    /\ UNCHANGED <<userKey, userSalt, db, sharedKey, friendDecrypted, userKeyAgain,
                   userDecrypted, kmVars, cipherVars, optionAVars>>

JsStore ==
    /\ jsPc = 59
    /\ db' = [db EXCEPT !.deeds = Append(@, deedRecord)]
    /\ jsPc' = 87
    /\ UNCHANGED <<userKey, userSalt, encryptedDeed, sharedKey, friendDecrypted,
                   userKeyAgain, userDecrypted, kmVars, cipherVars, optionAVars>>

JsFriendKey ==
    /\ jsPc = 87
    /\ sharedKey' = Buffer_from_hex(db.deeds[1].shared_with[1].shared_key)
    /\ jsPc' = 92
    /\ UNCHANGED <<userKey, userSalt, encryptedDeed, db, friendDecrypted,
                   userKeyAgain, userDecrypted, kmVars, cipherVars, optionAVars>>

JsFriendDecrypt ==
    /\ jsPc = 92
    /\ friendDecrypted' = decrypt(stored_object(db.deeds[1]), sharedKey)
    /\ jsPc' = 104
    /\ UNCHANGED <<userKey, userSalt, encryptedDeed, db, sharedKey, userKeyAgain,
                   userDecrypted, kmVars, cipherVars, optionAVars>>

JsDeriveAgain ==
    /\ jsPc = 104
    /\ userKeyAgain' = deriveKey(userPassword, Buffer_from_hex(db.deeds[1].salt), 0).key
    /\ jsPc' = 108
    /\ UNCHANGED <<userKey, userSalt, encryptedDeed, db, sharedKey, friendDecrypted,
                   userDecrypted, kmVars, cipherVars, optionAVars>>

JsUserDecrypt ==
    /\ jsPc = 108
    /\ userDecrypted' = decrypt(stored_object(db.deeds[1]), userKeyAgain)
    /\ jsPc' = 116
    /\ UNCHANGED <<userKey, userSalt, encryptedDeed, db, sharedKey, friendDecrypted,
                   userKeyAgain, kmVars, cipherVars, optionAVars>>

\* ------------------------------------------ encrypt / decrypt on their own
friendPassword == "friendPassword456!"

CipherKeys == {pbkdf2Sync(password, randomBytes(16, 1)) : password \in {userPassword, friendPassword}}
Payloads == {"", privateDeed}

\* every object encrypt can return for these inputs
CipherObjects ==
    {encrypt(data, key, iv) : data \in Payloads, key \in CipherKeys, iv \in RandomBytes}

NotOpened == [ok |-> FALSE, pending |-> TRUE]

CipherInit ==
    /\ sealed = [st |-> "empty"]
    /\ opened = NotOpened
    /\ derived = [called |-> FALSE]

\* the salts a caller can pass to deriveKey: none, or a buffer of some length
SaltLengths == {0, 8, 16, 32}
SaltArguments == {null} \cup {randomBytes(size, bytes) : size \in SaltLengths, bytes \in Salts}

byteLength(buf) == buf.size

\* deriveKey(password, salt) called with any salt: the function has no throw
\* statement, so the call returns what deriveKey computes
DeriveKeyCall(password, salt, random) ==
    /\ derived' = [called |-> TRUE, password |-> password, salt |-> salt,
                   outcome |-> "returned", value |-> deriveKey(password, salt, random)]
    /\ UNCHANGED <<sealed, opened, kmVars, jsVars, optionAVars>>

\* encrypt(data, key), iv being what crypto.randomBytes returns
CipherSeal(data, key, iv) ==
    /\ sealed.st = "empty"
    /\ sealed' = [st |-> "sealed", data |-> data, key |-> key, with |-> key,
                  original |-> encrypt(data, key, iv), obj |-> encrypt(data, key, iv)]
    /\ opened' = NotOpened
    /\ UNCHANGED <<derived, kmVars, jsVars, optionAVars>>

\* the stored object, or the key presented, is changed before decrypt is called
CipherTamper(field, other, key) ==
    /\ sealed.st = "sealed"
    /\ opened = NotOpened
    /\ \/ /\ field = "iv"
          /\ other.iv # sealed.obj.iv
          /\ sealed' = [sealed EXCEPT !.st = "tampered", !.obj.iv = other.iv]
       \/ /\ field = "tag"
          /\ other.tag # sealed.obj.tag
          /\ sealed' = [sealed EXCEPT !.st = "tampered", !.obj.tag = other.tag]
       \/ /\ field = "encryptedData"
          /\ other.encryptedData # sealed.obj.encryptedData
          /\ sealed' = [sealed EXCEPT !.st = "tampered",
                                      !.obj.encryptedData = other.encryptedData]
       \/ /\ field = "key"
          /\ key # sealed.key
          /\ sealed' = [sealed EXCEPT !.st = "tampered", !.with = key]
    /\ UNCHANGED <<opened, derived, kmVars, jsVars, optionAVars>>

\* decrypt(encryptedObj, key): the plaintext, or the exception of decipher.final()
CipherOpen ==
    /\ sealed.st \in {"sealed", "tampered"}
    /\ opened = NotOpened
    /\ opened' = decrypt(sealed.obj, sealed.with)
    /\ UNCHANGED <<sealed, derived, kmVars, jsVars, optionAVars>>

\* ------------------------- Option A: encrypted_keys next to the original tables
\* deriveKey(password, salt) of the client: PBKDF2, 100000 iterations, SHA-256
client_deriveKey(password, salt) == pbkdf2_hmac(password, salt)

\* crypto.subtle.generateKey: a random AES-256-GCM key
generateKey(random) == <<"dek", random>>

encryptData(dek, plaintext, iv) ==
    [iv |-> iv, ciphertext |-> AESGCM_encrypt(dek, iv, plaintext)]

encryptDEK(password, salt, dek, iv) ==
    encryptData(client_deriveKey(password, salt), dek, iv)

decryptAES(key, encrypted) == AESGCM_decrypt(key, encrypted.iv, encrypted.ciphertext)

\* the users.encryption_salt of a user, and the KEK of the password the user holds
encryption_salt(user_id) == get_user_salt(user_id)
KEK(user_id) == client_deriveKey(user_password[user_id], encryption_salt(user_id))

\* the DEK a row of encrypted_keys yields under a key
decrypt_dek(k, kek) == decryptAES(kek, [iv |-> k.iv, ciphertext |-> k.encrypted_dek])

\* UNIQUE(data_type, reference_id, user_id)
key_rows(reference_id, user_id) ==
    {k \in encrypted_keys : k.data_type = "deed_item" /\ k.reference_id = reference_id
                            /\ k.user_id = user_id}

OptionAInit ==
    /\ encrypted_keys = {}
    /\ deed_item_id_seq = 1
    /\ client_op = Idle

InsertDeed(deed_id) ==
    /\ deed_id \notin deeds
    /\ deeds' = deeds \cup {deed_id}
    /\ UNCHANGED <<user_password, relations, deed_items, deed_encryption_keys, permissions,
                   grant_op, grants_done, last_call, encrypted_deed_access_log,
                   jsVars, cipherVars, optionAVars>>

\* BEGIN; INSERT INTO deed_items ... RETURNING deed_item_id; INSERT INTO encrypted_keys
\* ... for the owner; COMMIT, with what the client encrypted beforehand
InsertEncryptedDeedItem(deed_id, random, dek_iv, data_iv) ==
    LET user_id == DeedOwner(deed_id)
        dek == generateKey(random)
        encrypted == encryptData(dek, PlainName(deed_item_id_seq), data_iv)
        encryptedDEK == encryptDEK(user_password[user_id], encryption_salt(user_id),
                                   dek, dek_iv)
    IN  /\ deed_id \in deeds
        /\ deed_item_id_seq \in Items
        /\ deed_items' = deed_items \cup
              {[deed_item_id |-> deed_item_id_seq, deed_id |-> deed_id,
                name |-> encrypted.ciphertext]}
        /\ encrypted_keys' = encrypted_keys \cup
              {[data_type |-> "deed_item", reference_id |-> deed_item_id_seq,
                user_id |-> user_id, encrypted_dek |-> encryptedDEK.ciphertext,
                iv |-> encryptedDEK.iv, data_iv |-> encrypted.iv]}
        /\ deed_item_id_seq' = deed_item_id_seq + 1
        /\ UNCHANGED <<user_password, relations, deeds, deed_encryption_keys, permissions,
                       grant_op, grants_done, last_call, encrypted_deed_access_log,
                       client_op, jsVars, cipherVars>>

\* sharing, on the clients: A's client decrypts encrypted_DEK_A, B's client encrypts
\* the same DEK with B's password
ShareEncrypt(deed_item_id, friend_user_id, dek_iv) ==
    /\ client_op.pc = "idle"
    /\ \E item \in deed_items :
          /\ item.deed_item_id = deed_item_id
          /\ friend_user_id # DeedOwner(item.deed_id)
          /\ \E k \in key_rows(deed_item_id, DeedOwner(item.deed_id)) :
                LET dek == decrypt_dek(k, KEK(DeedOwner(item.deed_id)))
                    encryptedDEK == encryptDEK(user_password[friend_user_id],
                                        encryption_salt(friend_user_id), dek.v, dek_iv)
                IN  /\ dek.ok
                    /\ client_op' =
                          [pc |-> "store",
                           row |-> [data_type |-> "deed_item",
                                    reference_id |-> deed_item_id,
                                    user_id |-> friend_user_id,
                                    encrypted_dek |-> encryptedDEK.ciphertext,
                                    iv |-> encryptedDEK.iv, data_iv |-> k.data_iv]]
    /\ UNCHANGED <<kmVars, jsVars, cipherVars, encrypted_keys, deed_item_id_seq>>

\* sharing, on the server: INSERT INTO encrypted_keys ... for the friend; a row for
\* the same item and user makes the insert fail on the UNIQUE constraint
ShareStore ==
    /\ client_op.pc = "store"
    /\ encrypted_keys' =
          IF key_rows(client_op.row.reference_id, client_op.row.user_id) = {}
          THEN encrypted_keys \cup {client_op.row}
          ELSE encrypted_keys
    /\ client_op' = Idle
    /\ UNCHANGED <<kmVars, jsVars, cipherVars, deed_item_id_seq>>

\* "Revoking access = delete encrypted_keys row"
RevokeAccess(deed_item_id, user_id) ==
    /\ key_rows(deed_item_id, user_id) # {}
    /\ encrypted_keys' = encrypted_keys \ key_rows(deed_item_id, user_id)
    /\ UNCHANGED <<kmVars, jsVars, cipherVars, deed_item_id_seq, client_op>>

\* DELETE FROM deed_items: encrypted_keys.reference_id carries no foreign key, so no
\* row of encrypted_keys goes with the item
DeleteDeedItem(deed_item_id) ==
    /\ \E item \in deed_items : item.deed_item_id = deed_item_id
    /\ deed_items' = {item \in deed_items : item.deed_item_id # deed_item_id}
    /\ UNCHANGED <<user_password, relations, deeds, deed_encryption_keys, permissions,
                   grant_op, grants_done, last_call, encrypted_deed_access_log,
                   jsVars, cipherVars, optionAVars>>

\* "Password changes require re-encrypting all DEKs": every row of the user is
\* decrypted with the old KEK and encrypted again with the new one
reencrypt_dek(k, old_password, new_password, iv) ==
    LET dek == decrypt_dek(k, client_deriveKey(old_password, encryption_salt(k.user_id)))
        encryptedDEK == encryptDEK(new_password, encryption_salt(k.user_id), dek.v, iv)
    IN  IF dek.ok
        THEN [k EXCEPT !.encrypted_dek = encryptedDEK.ciphertext, !.iv = encryptedDEK.iv]
        ELSE k

PasswordChange(user_id, new_password, ivs) ==
    /\ new_password # user_password[user_id]
    /\ user_password' = [user_password EXCEPT ![user_id] = new_password]
    /\ encrypted_keys' =
          {IF k.user_id = user_id
           THEN reencrypt_dek(k, user_password[user_id], new_password, ivs[k.reference_id])
           ELSE k : k \in encrypted_keys}
    /\ UNCHANGED <<relations, deeds, deed_items, deed_encryption_keys, permissions,
                   grant_op, grants_done, last_call, encrypted_deed_access_log,
                   jsVars, cipherVars, deed_item_id_seq, client_op>>

\* ------------------------------------------------------------------ claims
\* C1: every two users holding a key row for the same deed recover the same deed
\* key, each by unwrapping their own row with their current master key.
C1_CrossUserConsistency ==
    \A ka \in deed_encryption_keys, kb \in deed_encryption_keys :
        ka.deed_id = kb.deed_id =>
            /\ unwrap_row(ka, CurrentKey(ka.user_id)).ok
            /\ unwrap_row(kb, CurrentKey(kb.user_id)).ok
            /\ unwrap_row(ka, CurrentKey(ka.user_id)).v
                  = unwrap_row(kb, CurrentKey(kb.user_id)).v

\* C2: in a read or a grant, a key is unwrapped only after the access decision of
\* that call allowed it (owner row found, active permission found, accepted relation
\* found); a call that ends with a permission error unwraps and opens nothing.
C2_GateBeforeCrypto ==
    LET t == last_call.trace
        before(i, e) == \E j \in 1..(i - 1) : t[j] = e
    IN  /\ \A i \in 1..Len(t) :
              /\ t[i] \in {"unwrap:ok", "unwrap:fail"} =>
                    \/ before(i, "owner_row:found") /\ ~before(i, "relation:found")
                    \/ before(i, "permission:active")
              /\ t[i] \in {"unwrap:ok", "unwrap:fail"} /\ last_call.op = "grant" =>
                    before(i, "relation:accepted")
              /\ t[i] \in {"open:ok", "open:fail"} => before(i, "unwrap:ok")
        /\ last_call.outcome \in {"PermissionError", "ValueError"} =>
              /\ \A i \in 1..Len(t) :
                    t[i] \notin {"unwrap:ok", "unwrap:fail", "open:ok", "open:fail"}
              /\ last_call.names = {}

\* a friend's read went through the permission check and then unwrapped and opened
C2_Witness ==
    /\ last_call.op = "read"
    /\ last_call.user_id # DeedOwner(last_call.deed_id)
    /\ last_call.outcome = "ok"
    /\ last_call.names # {}

\* C3: a user who is not the owner is let through to an item only while the relation
\* with the owner is accepted and an active grant exists for that very item.
C3_NonOwnerNeedsRelationAndGrant ==
    (last_call.op = "read" /\ last_call.user_id # DeedOwner(last_call.deed_id)) =>
        \A x \in last_call.names :
            \E r \in accepted_relations(DeedOwner(last_call.deed_id), last_call.user_id) :
                \E p \in permissions :
                    /\ p.relation_id = r
                    /\ p.deed_item_id = x[1]
                    /\ p.is_active

\* C4: once the grant of an item to a friend is revoked, the friend is denied the
\* item and the store holds no key row of the friend for it.
C4_Revocation ==
    [][\A d \in DeedIds, f \in Users, ids \in SUBSET Items, delete_key \in BOOLEAN :
            Revoke(DeedOwner(d), f, d, ids, delete_key) =>
                /\ ~has_permission(f, d)'
                /\ {k \in deed_encryption_keys' : k.deed_id = d /\ k.user_id = f} = {}]_vars

\* C5: in every state, an active permission comes with a key row of the grantee for
\* the deed of the item, the states inside a grant and after a failed grant included.
C5_GrantAtomicity ==
    \A p \in permissions :
        p.is_active =>
            \E k \in deed_encryption_keys :
                /\ k.deed_id = ItemDeed(p.deed_item_id)
                /\ k.relation_id = p.relation_id
                /\ k.user_id # DeedOwner(k.deed_id)

\* C6: granting the same friend the same deed twice with no revoke in between
\* leaves exactly one key row for the pair, and the friend's master key still
\* unwraps it to the deed key the owner's row holds.
C6_IdempotentSharing ==
    \A d \in deeds, f \in Users :
        (grants_done[d][f] = 2 /\ grant_op.pc = "idle") =>
            LET rows == {k \in deed_encryption_keys : k.deed_id = d /\ k.user_id = f}
            IN  /\ Cardinality(rows) = 1
                /\ \A k \in rows, o \in owner_key_rows(d, DeedOwner(d)) :
                      /\ unwrap_row(k, CurrentKey(f)).ok
                      /\ unwrap_row(k, CurrentKey(f)) = unwrap_row(o, CurrentKey(DeedOwner(d)))

\* C7: the key store holds at most one row for each (deed, user) pair.
C7_RowUniqueness ==
    \A k1 \in deed_encryption_keys, k2 \in deed_encryption_keys :
        (k1.deed_id = k2.deed_id /\ k1.user_id = k2.user_id) => k1 = k2

\* C8: after a password change the owner's row unwraps under the master key of the
\* new password to a deed key that opens every item to its original plaintext, and
\* the master key of no other password unwraps that row.
C8_RotationPreservesPlaintext ==
    \A d \in deeds :
        \A k \in owner_key_rows(d, DeedOwner(d)) :
            /\ unwrap_row(k, CurrentKey(DeedOwner(d))).ok
            /\ \A it \in deed_items :
                  it.deed_id = d =>
                     decrypt_deed_item_name(it.name_encrypted,
                          unwrap_row(k, CurrentKey(DeedOwner(d))).v)
                        = Ok(PlainName(it.deed_item_id))
            /\ \A old \in Passwords \ {user_password[DeedOwner(d)]} :
                  ~unwrap_row(k, derive_user_master_key(DeedOwner(d), old,
                                     get_user_salt(DeedOwner(d)))).ok

\* the owner's password was changed after the deed key in use was derived
C8_Witness ==
    \E d \in deeds, it \in deed_items :
        /\ it.deed_id = d
        /\ owner_key_rows(d, DeedOwner(d)) # {}
        /\ it.name_encrypted.ciphertext.c.k # derive_deed_key(CurrentKey(DeedOwner(d)), d)

\* C9: no step changes the ciphertext, tag or nonce of an item that exists.
C9_CiphertextImmutable ==
    [][\A it \in deed_items : it \in deed_items']_vars

\* C10: nothing kept in the store opens a stored ciphertext: no stored field is a
\* key under which a stored record decrypts.
C10_ZeroKnowledgeStorage ==
    \A i \in 1..Len(db.deeds) :
        \A j \in 1..Len(db.deeds[i].shared_with) :
            ~decrypt(stored_object(db.deeds[i]),
                     Buffer_from_hex(db.deeds[i].shared_with[j].shared_key)).ok

\* C11: after a grant of an item to a friend has completed, with no revoke and no
\* relation change since, the friend is let through, the friend's row unwraps under
\* the friend's own master key, and the item opens to the plaintext the owner wrote.
C11_ShareThenRead ==
    \A d \in deeds, f \in Users, r \in RelIds :
        (/\ grant_op.pc = "idle"
         /\ grants_done[d][f] >= 1
         /\ r \in accepted_relations(DeedOwner(d), f)
         /\ active_read_permissions(r, d) # {}
         /\ shared_key_rows(d, f, r) # {}) =>
            LET res == get_deed_items_decrypted(d, f, user_password[f], r)
            IN  /\ res.outcome = "ok"
                /\ \A p \in active_read_permissions(r, d) :
                      <<p.deed_item_id, PlainName(p.deed_item_id)>> \in res.names

C14_OwnerAlwaysAllowed ==
    /\ \A d \in deeds :
          /\ has_permission(DeedOwner(d), d)
          /\ get_user_deed_key(DeedOwner(d), d, user_password[DeedOwner(d)]).outcome = "ok"
    /\ (last_call.op = "read" /\ last_call.user_id = DeedOwner(last_call.deed_id)) =>
          last_call.outcome # "PermissionError"

\* the owner read the deed after the friend's grant was revoked and the relation blocked
C14_Witness ==
    /\ last_call.op = "read"
    /\ last_call.user_id = DeedOwner(last_call.deed_id)
    /\ last_call.outcome = "ok"
    /\ \E r \in RelIds : relations[r] = "blocked"
    /\ \E p \in permissions : ~p.is_active

\* C15: a user who is not the owner, whose relation with the owner is accepted and
\* who holds an active write permission on an item, is let through to read it.
C15_WriteImpliesRead ==
    \A p \in permissions :
        (/\ p.permission_type = "write"
         /\ p.is_active
         /\ relations[p.relation_id] = "accepted") =>
            \A f \in {p.relation_id[1], p.relation_id[2]} \ {DeedOwner(ItemDeed(p.deed_item_id))} :
                /\ has_permission(f, ItemDeed(p.deed_item_id))
                /\ get_deed_items_decrypted(ItemDeed(p.deed_item_id), f, user_password[f],
                                            p.relation_id).outcome # "PermissionError"

\* C16: every access decision of a read or a grant, allowing or denying, leaves one
\* record for that user and deed in the access log.
C16_AuditCompleteness ==
    last_call.op \in {"read", "grant"} =>
        \E n \in 1..Len(encrypted_deed_access_log) :
            /\ encrypted_deed_access_log[n].deed_id = last_call.deed_id
            /\ encrypted_deed_access_log[n].accessed_by_user_id = last_call.user_id

\* C17: a friend's read that a revoke overtakes between its queries either finds no
\* row, or fetched a complete row that unwraps under the friend's key to the deed
\* key; it never works on a row whose key bytes and salt do not belong together.
C17_RevokeUnwrapRace ==
    (grant_op.pc = "decrypt" /\ grant_op.revoked /\ grant_op.record.ok) =>
        /\ fetched_deed_key(grant_op).ok
        /\ \A o \in owner_key_rows(grant_op.deed_id, DeedOwner(grant_op.deed_id)) :
              fetched_deed_key(grant_op) = unwrap_row(o, CurrentKey(DeedOwner(grant_op.deed_id)))

\* C18: after two grants to the same friend for the same deed, the friend's key row
\* is the output of one of the two writers: its encrypted_deed_key was sealed with
\* the very key_derivation_salt stored beside it.
C18_SamePairWriteSerialization ==
    \A k \in deed_encryption_keys :
        (k.relation_id # NULL /\ grants_done[k.deed_id][k.user_id] = 2) =>
            k.encrypted_deed_key = encrypt_with_master_key(k.encrypted_deed_key.c.p,
                                                           k.encrypted_deed_key.c.k,
                                                           k.key_derivation_salt)

C20_KdfDeterministic ==
    /\ jsPc >= 108 =>
          /\ userKeyAgain = userKey
          /\ \A password \in {userPassword, friendPassword}, bytes \in RandomBytes :
                decrypt(stored_object(db.deeds[1]),
                        deriveKey(password, randomBytes(16, bytes), 0).key) =
                    IF /\ password = userPassword
                       /\ randomBytes(16, bytes) = Buffer_from_hex(db.deeds[1].salt)
                    THEN Ok(privateDeed)
                    ELSE Fail
    /\ jsPc = 116 => userDecrypted = Ok(privateDeed)

\* the user has logged in again and decrypted the deed with the re-derived key
C20_Witness ==
    /\ jsPc = 116
    /\ userKeyAgain = pbkdf2Sync(userPassword, userSalt)
    /\ userDecrypted.ok

\* C21: a deriveKey call whose salt is absent, or is not 16 bytes long, fails with
\* InvalidSalt and returns no key.
C21_DerivationInputValidation ==
    (derived.called /\ (derived.salt = null \/ byteLength(derived.salt) # 16)) =>
        derived.outcome = "InvalidSalt"

\* C23: every encrypt call seals under a nonce it drew itself, 12 bytes long.
C23_NonceFreshness ==
    sealed.st \in {"sealed", "tampered"} =>
        /\ sealed.original.encryptedData.n = sealed.original.iv
        /\ byteLength(sealed.original.iv) = 12

\* C24: the key under which the deed's plaintext is sealed is never a key derived
\* from a password.
C24_KeySeparation ==
    jsPc >= 59 =>
        \A password \in {userPassword, friendPassword}, bytes \in RandomBytes :
            encryptedDeed.encryptedData.k #
                deriveKey(password, randomBytes(16, bytes), 0).key

C26_DeletionCascade ==
    \A k \in encrypted_keys :
        \E item \in deed_items : item.deed_item_id = k.reference_id

C28_PerItemGrantScope ==
    \A d \in deeds, f \in Users, r \in RelIds :
        (f # DeedOwner(d)
         /\ get_friend_deed_key(f, d, r, user_password[f]).outcome = "ok") =>
            \A it \in deed_items :
                (/\ it.deed_id = d
                 /\ decrypt_deed_item_name(it.name_encrypted,
                        get_friend_deed_key(f, d, r, user_password[f]).key.v).ok) =>
                    \E p \in permissions :
                        /\ p.relation_id = r
                        /\ p.deed_item_id = it.deed_item_id
                        /\ p.permission_type = "read"
                        /\ p.is_active

C30_RotationRacingGrant ==
    client_op.pc = "idle" =>
        \A k \in encrypted_keys :
            decrypt_dek(k, KEK(k.user_id)).ok

\* ------------------------------------------------------------ specifications
Init == KmInit /\ JsInit /\ CipherInit /\ OptionAInit

OneWay == {<<1, 2>>}

Sharing(R, N, S) ==
    \/ \E r \in R : SendRequest(r)
    \/ \E r \in R, status \in {"accepted", "rejected"} : RespondRequest(r, status)
    \/ \E r \in R : BlockRelation(r)
    \/ \E d \in DeedIds, nonces \in [Items -> N], salt \in S :
          CreateDeed(d, nonces, salt)
    \/ \E d \in DeedIds, f \in Users : GrantRefused(DeedOwner(d), f, d)
    \/ \E d \in DeedIds, f \in Users, ids \in SUBSET Items, r \in R :
          GrantPermissions(DeedOwner(d), f, d, ids, r)
    \/ \E salt \in S : GrantStoreKey(salt)
    \/ GrantFail
    \/ \E d \in DeedIds, f \in Users, ids \in SUBSET Items, delete_key \in BOOLEAN :
          Revoke(DeedOwner(d), f, d, ids, delete_key)
    \/ \E d \in DeedIds, u \in Users, password \in Passwords : Read(d, u, password)

Rotation ==
    \/ \E u \in Users, new_password \in Passwords :
          \E salts \in [RowKeys({k \in deed_encryption_keys : k.user_id = u}) -> Salts] :
             ChangePassword(u, new_password, salts)
    \/ \E d \in DeedIds, nonces \in [Items -> Nonces] :
          \E salts \in [RowKeys({k \in deed_encryption_keys : k.deed_id = d}) -> Salts] :
             RotateDeedKey(d, DeedOwner(d), nonces, salts)

Next == Sharing(OneWay, Nonces, Salts) \/ Rotation

Spec == Init /\ [][Next]_vars

\* both directions of the relation; the random values do not matter here
MutualNext == Sharing(RelIds, {1}, {1})

MutualSpec == Init /\ [][MutualNext]_vars

DemoNext ==
    \/ \E random \in RandomBytes : JsDeriveKey(random)
    \/ \E random \in RandomBytes : JsEncrypt(random)
    \/ JsStore
    \/ JsFriendKey
    \/ JsFriendDecrypt
    \/ JsDeriveAgain
    \/ JsUserDecrypt

DemoSpec == Init /\ [][DemoNext]_vars

\* the sharing operations together with write permissions
WriteNext ==
    \/ Sharing(OneWay, {1}, {1})
    \/ \E r \in OneWay, i \in Items : GrantWritePermission(r, i)

WriteSpec == Init /\ [][WriteNext]_vars

\* the sharing operations with the friend's read taken one query at a time
RaceNext ==
    \/ Sharing(OneWay, {1}, Salts)
    \/ \E d \in DeedIds, u \in Users, r \in OneWay : FriendReadCheck(d, u, r)
    \/ FriendReadFetch
    \/ FriendReadFinish

RaceSpec == Init /\ [][RaceNext]_vars

\* the sharing operations with reads whose lookups may time out
FailClosedNext ==
    \/ Sharing(OneWay, {1}, {1})
    \/ \E d \in DeedIds, u \in Users, pw \in Passwords, raises \in BOOLEAN :
          \E lookup \in {"relation", "permission"} : ReadTimeout(d, u, pw, lookup, raises)

FailClosedSpec == Init /\ [][FailClosedNext]_vars

CipherNext ==
    \/ \E data \in Payloads, key \in CipherKeys, iv \in RandomBytes :
          CipherSeal(data, key, iv)
    \/ \E field \in {"iv", "tag", "encryptedData", "key"}, other \in CipherObjects,
          key \in CipherKeys : CipherTamper(field, other, key)
    \/ CipherOpen

CipherSpec == Init /\ [][CipherNext]_vars

\* Option A: items, their key rows, sharing, revoking, deleting, password change
OptionANext ==
    \/ \E d \in DeedIds : InsertDeed(d)
    \/ \E d \in DeedIds, random \in Nonces, dek_iv \in Nonces :
          InsertEncryptedDeedItem(d, random, dek_iv, 1)
    \/ \E i \in Items, f \in Users, dek_iv \in Nonces : ShareEncrypt(i, f, dek_iv)
    \/ ShareStore
    \/ \E i \in Items, u \in Users : RevokeAccess(i, u)
    \/ \E i \in Items : DeleteDeedItem(i)
    \/ \E u \in Users, new_password \in Passwords, ivs \in [Items -> {1}] :
          PasswordChange(u, new_password, ivs)

OptionASpec == Init /\ [][OptionANext]_vars

\* deriveKey called with any salt, next to encrypt and decrypt
KdfNext ==
    \/ \E password \in {userPassword, friendPassword}, salt \in SaltArguments,
          random \in RandomBytes : DeriveKeyCall(password, salt, random)
    \/ CipherNext

KdfSpec == Init /\ [][KdfNext]_vars

====
